---- MODULE Spec2Model ----
(***************************************************************************)
(* The TwinInterface and TwinInstance reconcilers of the ktwin operator,   *)
(* run against a cluster resource store.  A reconcile pass is one action:  *)
(* it is computed by the operators below call by call, in the order of the *)
(* source, from the store it finds and from the set of client calls that   *)
(* fail with a transport error during the pass.                            *)
(***************************************************************************)
EXTENDS Integers, Sequences, FiniteSets, Bags, TLC

VARIABLES
    interfaces,   \* TwinInterface objects in the store: name -> object
    instances,    \* TwinInstance objects in the store: name -> object
    services,     \* bag of Knative Service objects
    triggers,     \* bag of Trigger objects
    bindings,     \* bag of RabbitMQ Binding objects
    exchanges,    \* set of RabbitMQ Exchange objects (shared infrastructure)
    queues,       \* set of RabbitMQ Queue objects (shared infrastructure)
    last,         \* history: the reconcile pass that has just run, if the last step was a pass
    requests,     \* the requests the manager holds for the TwinInterface reconciler
    workers       \* the TwinInstance passes in progress, call by call: worker -> pass

vars == <<interfaces, instances, services, triggers, bindings, exchanges, queues, last,
          requests, workers>>

----------------------------------------------------------------------------
(* Bounds and universes                                                    *)

\* at most this many client calls of one pass fail with a transport error
MaxFaults == 1

InterfaceNames == {"a"}
InstanceNames == {"x"}
\* names a TwinInstance may give as Spec.Interface
ReferenceNames == {"a"}
\* label maps a user may put on an object he or she creates
UserLabels == { ("app" :> "demo") }

PhaseUnset == ""
PhaseRunning == "Running"
PhaseFailed == "Failed"

----------------------------------------------------------------------------
(* Errors                                                                  *)

NoSite == <<"", "", "">>
\* a nil error
Nil == <<"nil", NoSite>>
\* the error value a client call at `site` returns with result `code`
Err(code, site) == IF code = "nil" THEN Nil ELSE <<code, site>>

\* a variant that recognises no error as "not found"
IsNotFoundNever(err) == FALSE

IsNotFound(err) == err[1] = "NotFound"
IsAlreadyExists(err) == err[1] = "AlreadyExists"

----------------------------------------------------------------------------
(* The resource client: get, list, create, update against the store.  A    *)
(* call whose site is in the pass's fault set f fails with a transport     *)
(* error ("Internal") and leaves the store as it was.                      *)

\* label-selector match: every selected key is present with the selected value
MatchingLabels(selector, labels) ==
    \A k \in DOMAIN selector : k \in DOMAIN labels /\ labels[k] = selector[k]

\* result code of a Get of `name` in a name -> object map
ClientGet(objects, name, site, f) ==
    IF site \in f THEN "Internal"
    ELSE IF name \notin DOMAIN objects THEN "NotFound"
    ELSE "nil"

\* result code of a Get of the object named `name` in a bag of objects
ClientGetIn(bag, name, site, f) ==
    IF site \in f THEN "Internal"
    ELSE IF \A o \in BagToSet(bag) : o.name # name THEN "NotFound"
    ELSE "nil"

\* the object a successful Get returns
Stored(bag, name) == CHOOSE o \in BagToSet(bag) : o.name = name

\* the items a List returns: the objects matching the selector (none on error)
ClientList(objects, selector, site, f) ==
    IF site \in f THEN [code |-> "Internal", items |-> {}]
    ELSE [code |-> "nil", items |-> {o \in objects : MatchingLabels(selector, o.labels)}]

\* Items[0] of a non-empty list
First(items) == CHOOSE o \in items : TRUE

\* result code of a Create: the store refuses a second object of the same name
ClientCreateCode(bag, obj, site, f) ==
    IF site \in f THEN "Internal"
    ELSE IF \E o \in BagToSet(bag) : o.name = obj.name THEN "AlreadyExists"
    ELSE "nil"

\* the bag after a Create with that result code
ClientCreate(bag, obj, code) ==
    IF code = "nil" THEN bag (+) SetToBag({obj}) ELSE bag

\* result code of an Update
ClientUpdateCode(objects, name, site, f) ==
    IF site \in f THEN "Internal"
    ELSE IF name \notin DOMAIN objects THEN "NotFound"
    ELSE "nil"

----------------------------------------------------------------------------
(* Generators of the artifacts of a TwinInterface and a TwinInstance       *)

BrokerLabel == "eventing.knative.dev/broker"
TriggerLabel == "eventing.knative.dev/trigger"
TwinInterfaceLabel == "ktwin/twin-interface"

\* routing keys of the generated bindings, in the order they are returned
RelationshipKeys == <<"real", "virtual">>
EventStoreKeys == <<"store">>
DispatcherKeys == <<"mqtt-real", "mqtt-virtual">>

\* the Knative Service of a TwinInterface
GetService(name) == [name |-> name, owner |-> name]

\* the Trigger of a TwinInterface as built in memory; the store fills in the
\* generated addressing fields when it creates the object
GetTwinInterfaceTrigger(name) == [name |-> name, owner |-> name, addressed |-> FALSE]

\* a Binding: its name is derived from exchange, queue and routing key
Binding(exchange, queue, key, kind, twin) ==
    [name |-> <<exchange, queue, key, twin>>,
     kind |-> kind,
     owner |-> twin]

GetRelationshipBrokerBindings(name, trigger, brokerExchange, twinInterfaceQueue) ==
    [k \in DOMAIN RelationshipKeys |->
        Binding(brokerExchange.name, twinInterfaceQueue.name, RelationshipKeys[k],
                "relationship", trigger.owner)]

GetEventStoreBrokerBindings(name, trigger, brokerExchange, eventStoreQueue) ==
    [k \in DOMAIN EventStoreKeys |->
        Binding(brokerExchange.name, eventStoreQueue.name, EventStoreKeys[k],
                "event-store", trigger.owner)]

GetMQQTDispatcherBindings(name) ==
    [k \in DOMAIN DispatcherKeys |->
        Binding("amq.topic", "mqtt-dispatcher", DispatcherKeys[k],
                "dispatcher", name)]

----------------------------------------------------------------------------
(* Call sites.  A site names one client call of a pass; the bindings are   *)
(* created one call per routing key.                                       *)

GetInterfaceSite == <<"Get", "TwinInterface", "">>
CreateServiceSite == <<"Create", "Service", "">>
CreateTriggerSite == <<"Create", "Trigger", "">>
GetTriggerSite == <<"Get", "Trigger", "">>
ListEventStoreQueueSite == <<"List", "Queue", "event-store">>
ListExchangeSite == <<"List", "Exchange", "">>
ListQueueSite == <<"List", "Queue", "interface">>
CreateBindingSite(binding) == <<"Create", "Binding", binding.name[3]>>
UpdateInterfaceSite == <<"Update", "TwinInterface", "">>
GetInstanceSite == <<"Get", "TwinInstance", "">>
GetParentSite == <<"Get", "TwinInterface", "parent">>
UpdateInstanceSite == <<"Update", "TwinInstance", "">>

Range(seq) == {seq[k] : k \in DOMAIN seq}

InterfaceSites ==
    {GetInterfaceSite, CreateServiceSite, CreateTriggerSite, GetTriggerSite,
     ListEventStoreQueueSite, ListExchangeSite, ListQueueSite, UpdateInterfaceSite}
    \cup {<<"Create", "Binding", k>> : k \in Range(RelationshipKeys) \cup Range(EventStoreKeys)}

InstanceSites ==
    {GetInstanceSite, GetParentSite, UpdateInstanceSite}
    \cup {<<"Create", "Binding", k>> : k \in Range(DispatcherKeys)}

\* the sets of calls that may fail in one pass
InterfaceFaultSets == {f \in SUBSET InterfaceSites : Cardinality(f) <= MaxFaults}
InstanceFaultSets == {f \in SUBSET InstanceSites : Cardinality(f) <= MaxFaults}

----------------------------------------------------------------------------
(* One reconcile pass, computed on a store record                          *)
(*   st = [interfaces, instances, services, triggers, bindings,            *)
(*         exchanges, queues].                                             *)
(* A pass in progress is a record [st, calls, resultErrors]: the store so  *)
(* far, the client calls made so far with their results, and the errors    *)
(* accumulated so far.  A finished pass adds err, the error returned to    *)
(* the caller, and obj, the status and labels of the in-memory object.     *)

NoObject == [status |-> PhaseUnset, labels |-> <<>>]
InMemory(object) == [status |-> object.status, labels |-> object.labels]

Called(c, site, code) == [c EXCEPT !.calls = Append(@, <<site, code>>)]

\* a variant that takes "already exists" for a failure
AppendErrorAlreadyExists(resultErrors, err) ==
    IF err # Nil THEN Append(resultErrors, err) ELSE resultErrors

\* a variant that logs the error and forgets to accumulate it
AppendErrorForgotten(resultErrors, err) == resultErrors

\* if err != nil && !errors.IsAlreadyExists(err) { resultErrors = append(resultErrors, err) }
AppendError(resultErrors, err) ==
    IF err # Nil /\ ~IsAlreadyExists(err) THEN Append(resultErrors, err) ELSE resultErrors

\* a variant that creates under a generated name, so that no create is refused
CreateStepGenerateName(c, collection, obj, stored, site, f) ==
    LET code == IF site \in f THEN "Internal" ELSE "nil"
    IN  [st |-> [c.st EXCEPT ![collection] = ClientCreate(@, stored, code)],
         calls |-> Append(c.calls, <<site, code>>),
         resultErrors |-> AppendError(c.resultErrors, Err(code, site))]

\* if len(list.Items) == 0 { resultErrors = append(resultErrors, err) }: the
\* error of the list call is accumulated as it is, nil when the list succeeded
AppendUnresolved(resultErrors, err) == Append(resultErrors, err)

\* a variant that declares the missing default Exchange itself
ExchangeMissingDeclares(c, err) ==
    [c EXCEPT !.st.exchanges = @ \cup {[name |-> "ktwin", labels |-> (BrokerLabel :> "ktwin")]},
              !.resultErrors = AppendUnresolved(@, err)]

\* if len(exchangeList.Items) == 0 { ... resultErrors = append(resultErrors, err) }
ExchangeMissing(c, err) == [c EXCEPT !.resultErrors = AppendUnresolved(@, err)]

\* err := r.Create(ctx, obj) followed by the error check above; `stored` is
\* the object as the store keeps it
CreateStep(c, collection, obj, stored, site, f) ==
    LET code == ClientCreateCode(c.st[collection], obj, site, f)
    IN  [st |-> [c.st EXCEPT ![collection] = ClientCreate(@, stored, code)],
         calls |-> Append(c.calls, <<site, code>>),
         resultErrors |-> AppendError(c.resultErrors, Err(code, site))]

\* for _, binding := range bindings { r.Create(...) ... }
RECURSIVE CreateBindings(_, _, _)
CreateBindings(c, objs, f) ==
    IF objs = <<>> THEN c
    ELSE CreateBindings(
            CreateStep(c, "bindings", Head(objs), Head(objs), CreateBindingSite(Head(objs)), f),
            Tail(objs), f)

\* a variant that adds the identity label to the labels the stored object has
updateTwinInterfaceMerge(st, name, obj, f) ==
    LET code == ClientUpdateCode(st.interfaces, name, UpdateInterfaceSite, f)
    IN  [st |-> IF code = "nil"
                THEN [st EXCEPT !.interfaces[name] =
                        [obj EXCEPT !.labels = @ @@ st.interfaces[name].labels]]
                ELSE st,
         code |-> code]

\* a variant that writes the status and leaves the stored labels
updateTwinInterfaceStatusOnly(st, name, obj, f) ==
    LET code == ClientUpdateCode(st.interfaces, name, UpdateInterfaceSite, f)
    IN  [st |-> IF code = "nil"
                THEN [st EXCEPT !.interfaces[name].status = obj.status]
                ELSE st,
         code |-> code]

\* r.Update(ctx, twinInterface): the whole in-memory object replaces the stored one
updateTwinInterface(st, name, obj, f) ==
    LET code == ClientUpdateCode(st.interfaces, name, UpdateInterfaceSite, f)
    IN  [st |-> IF code = "nil" THEN [st EXCEPT !.interfaces[name] = obj] ELSE st,
         code |-> code]

\* a variant that returns the error of the final update to the caller
FinishInterfaceReturnsUpdateError(c, name, f) ==
    LET twinInterface == c.st.interfaces[name]
    IN  IF Len(c.resultErrors) > 0
        THEN [st |-> c.st, calls |-> c.calls, resultErrors |-> c.resultErrors,
              err |-> c.resultErrors[1],
              obj |-> InMemory([twinInterface EXCEPT !.status = PhaseFailed])]
        ELSE LET obj == [twinInterface EXCEPT !.status = PhaseRunning,
                                              !.labels = (TwinInterfaceLabel :> name)]
                 code == ClientUpdateCode(c.st.interfaces, name, UpdateInterfaceSite, f)
             IN  [st |-> IF code = "nil" THEN [c.st EXCEPT !.interfaces[name] = obj] ELSE c.st,
                  calls |-> Append(c.calls, <<UpdateInterfaceSite, code>>),
                  resultErrors |-> c.resultErrors,
                  err |-> Err(code, UpdateInterfaceSite),
                  obj |-> InMemory(obj)]

\* the tail of createUpdateTwinInterface: phase from the accumulated errors,
\* early return of the first one, else label and update
FinishInterface(c, name, f) ==
    LET twinInterface == c.st.interfaces[name]
    IN  IF Len(c.resultErrors) > 0
        THEN [st |-> c.st, calls |-> c.calls, resultErrors |-> c.resultErrors,
              err |-> c.resultErrors[1],
              obj |-> InMemory([twinInterface EXCEPT !.status = PhaseFailed])]
        ELSE LET obj == [twinInterface EXCEPT !.status = PhaseRunning,
                                              !.labels = (TwinInterfaceLabel :> name)]
                 u == updateTwinInterface(c.st, name, obj, f)
             IN  [st |-> u.st,
                  calls |-> Append(c.calls, <<UpdateInterfaceSite, u.code>>),
                  resultErrors |-> c.resultErrors,
                  err |-> Nil,
                  obj |-> InMemory(obj)]

\* the bindings part of createUpdateTwinInterface, reached when the
\* event-store queue list is not empty: exchange lookup, interface queue
\* lookup, relationship bindings, event-store bindings
ResolveAndBind(c, name, trigger, eventStoreQueuesList, f) ==
    LET exchangeList == ClientList(c.st.exchanges, (BrokerLabel :> "ktwin"), ListExchangeSite, f)
        xerr == Err(exchangeList.code, ListExchangeSite)
        c1 == [Called(c, ListExchangeSite, exchangeList.code) EXCEPT
                 !.resultErrors = IF xerr # Nil THEN Append(@, xerr) ELSE @]
    IN  IF exchangeList.items = {}
        THEN ExchangeMissing(c1, xerr)
        ELSE
        LET queueList == ClientList(c1.st.queues,
                            (BrokerLabel :> "ktwin") @@ (TriggerLabel :> name),
                            ListQueueSite, f)
            qerr == Err(queueList.code, ListQueueSite)
            c2 == Called(c1, ListQueueSite, queueList.code)
        IN  IF queueList.items = {}
            THEN [c2 EXCEPT !.resultErrors = AppendUnresolved(@, qerr)]
            ELSE
            LET brokerExchange == First(exchangeList.items)
                twinInterfaceQueue == First(queueList.items)
                c3 == CreateBindings(c2,
                        GetRelationshipBrokerBindings(name, trigger, brokerExchange,
                                                      twinInterfaceQueue), f)
                eventStoreQueue == First(eventStoreQueuesList.items)
            IN  CreateBindings(c3,
                    GetEventStoreBrokerBindings(name, trigger, brokerExchange,
                                                eventStoreQueue), f)

\* the body of `if twinInterface.Spec.Service != nil { ... }` and what follows it
createServiceTriggerBindings(c, name, f) ==
    LET twinInterface == c.st.interfaces[name]
        c1 == CreateStep(c, "services", GetService(name), GetService(name),
                         CreateServiceSite, f)
        built == GetTwinInterfaceTrigger(name)
        c2 == CreateStep(c1, "triggers", built, [built EXCEPT !.addressed = TRUE],
                         CreateTriggerSite, f)
        gcode == ClientGetIn(c2.st.triggers, built.name, GetTriggerSite, f)
        trigger == IF gcode = "nil" THEN Stored(c2.st.triggers, built.name) ELSE built
        c3 == [Called(c2, GetTriggerSite, gcode) EXCEPT
                 !.resultErrors = AppendError(@, Err(gcode, GetTriggerSite))]
        eventStoreQueuesList == ClientList(c3.st.queues,
                                    (TriggerLabel :> "event-store-trigger"),
                                    ListEventStoreQueueSite, f)
        lerr == Err(eventStoreQueuesList.code, ListEventStoreQueueSite)
        c4 == Called(c3, ListEventStoreQueueSite, eventStoreQueuesList.code)
    IN  IF eventStoreQueuesList.items = {}
        THEN [st |-> c4.st, calls |-> c4.calls,
              resultErrors |-> AppendUnresolved(c4.resultErrors, lerr),
              err |-> lerr,
              obj |-> InMemory(twinInterface)]
        ELSE FinishInterface(
                ResolveAndBind(c4, name, trigger, eventStoreQueuesList, f), name, f)

\* a variant that does not look at Spec.Service
createUpdateTwinInterfaceUnconditional(c, name, f) ==
    createServiceTriggerBindings(c, name, f)

createUpdateTwinInterface(c, name, f) ==
    IF c.st.interfaces[name].service
    THEN createServiceTriggerBindings(c, name, f)
    ELSE FinishInterface(c, name, f)

\* TwinInterfaceReconciler.Reconcile
InterfaceReconcile(st, name, f) ==
    LET code == ClientGet(st.interfaces, name, GetInterfaceSite, f)
        c == [st |-> st, calls |-> <<<<GetInterfaceSite, code>>>>, resultErrors |-> <<>>]
        err == Err(code, GetInterfaceSite)
    IN  IF err # Nil
        THEN [st |-> st, calls |-> c.calls, resultErrors |-> <<>>,
              err |-> IF IsNotFound(err) THEN Nil ELSE err,
              obj |-> NoObject]
        ELSE createUpdateTwinInterface(c, name, f)

\* r.Update(ctx, twinInstance)
updateTwinInstance(st, name, obj, f) ==
    LET code == ClientUpdateCode(st.instances, name, UpdateInstanceSite, f)
    IN  [st |-> IF code = "nil" THEN [st EXCEPT !.instances[name] = obj] ELSE st,
         code |-> code]

\* the tail of createUpdateTwinInstance: phase from the accumulated errors,
\* early return of the first one, else label and update of the in-memory object
FinishInstance(c, name, twinInstance, f) ==
    LET twinInterfaceName == name       \* twinInstance.ObjectMeta.Name
    IN  IF Len(c.resultErrors) > 0
        THEN [st |-> c.st, calls |-> c.calls, resultErrors |-> c.resultErrors,
              err |-> c.resultErrors[1],
              obj |-> InMemory([twinInstance EXCEPT !.status = PhaseFailed])]
        ELSE LET obj == [twinInstance EXCEPT !.status = PhaseRunning,
                                             !.labels = (TwinInterfaceLabel :> twinInterfaceName)]
                 u == updateTwinInstance(c.st, name, obj, f)
             IN  [st |-> u.st,
                  calls |-> Append(c.calls, <<UpdateInstanceSite, u.code>>),
                  resultErrors |-> c.resultErrors,
                  err |-> Nil,
                  obj |-> InMemory(obj)]

createUpdateTwinInstance(c, name, f) ==
    FinishInstance(CreateBindings(c, GetMQQTDispatcherBindings(name), f),
                   name, c.st.instances[name], f)

\* a variant that logs the parent's Get error and goes on
InstanceReconcileOrphan(st, name, f) ==
    LET code == ClientGet(st.instances, name, GetInstanceSite, f)
        err == Err(code, GetInstanceSite)
        c == [st |-> st, calls |-> <<<<GetInstanceSite, code>>>>, resultErrors |-> <<>>]
    IN  IF err # Nil
        THEN [st |-> st, calls |-> c.calls, resultErrors |-> <<>>,
              err |-> IF IsNotFound(err) THEN Nil ELSE err,
              obj |-> NoObject]
        ELSE
        LET pcode == ClientGet(st.interfaces, st.instances[name].interface, GetParentSite, f)
        IN  createUpdateTwinInstance(Called(c, GetParentSite, pcode), name, f)

\* TwinInstanceReconciler.Reconcile
InstanceReconcile(st, name, f) ==
    LET code == ClientGet(st.instances, name, GetInstanceSite, f)
        err == Err(code, GetInstanceSite)
        c == [st |-> st, calls |-> <<<<GetInstanceSite, code>>>>, resultErrors |-> <<>>]
    IN  IF err # Nil
        THEN [st |-> st, calls |-> c.calls, resultErrors |-> <<>>,
              err |-> IF IsNotFound(err) THEN Nil ELSE err,
              obj |-> NoObject]
        ELSE
        LET twinInstance == st.instances[name]
            pcode == ClientGet(st.interfaces, twinInstance.interface, GetParentSite, f)
            perr == Err(pcode, GetParentSite)
            c1 == Called(c, GetParentSite, pcode)
        IN  IF perr # Nil
            THEN [st |-> st, calls |-> c1.calls, resultErrors |-> <<>>,
                  err |-> perr,
                  obj |-> InMemory(twinInstance)]
            ELSE createUpdateTwinInstance(c1, name, f)

----------------------------------------------------------------------------
(* The state machine                                                       *)

\* the shared infrastructure that may be provisioned in the namespace
ExchangePool ==
    { [name |-> "ktwin-exchange", labels |-> (BrokerLabel :> "ktwin")] }
QueuePool ==
    { [name |-> "queue-" \o n,
       labels |-> (BrokerLabel :> "ktwin") @@ (TriggerLabel :> n)] : n \in InterfaceNames }
    \cup { [name |-> "event-store-queue",
            labels |-> (TriggerLabel :> "event-store-trigger")] }

Store ==
    [interfaces |-> interfaces, instances |-> instances, services |-> services,
     triggers |-> triggers, bindings |-> bindings, exchanges |-> exchanges,
     queues |-> queues]

\* the record of a pass: the request, the calls it made with their results, the
\* errors it accumulated, the error it returned to the caller, and the status
\* and labels of its in-memory object.  The store it left is the current one:
\* any other step clears the record.
Pass(kind, name, r) ==
    [kind |-> kind, name |-> name, calls |-> r.calls,
     resultErrors |-> r.resultErrors, err |-> r.err, obj |-> r.obj]

NoPass ==
    [kind |-> "none", name |-> "", calls |-> <<>>,
     resultErrors |-> <<>>, err |-> Nil, obj |-> NoObject]

\* the workers that may run a pass of the TwinInstance reconciler at the same time
Workers == {"w1", "w2"}

\* a worker between two passes
Idle ==
    [pc |-> "idle", name |-> "", twinInstance |-> NoObject, todo |-> <<>>,
     calls |-> <<>>, resultErrors |-> <<>>, err |-> Nil, obj |-> NoObject]

Init ==
    /\ interfaces = <<>>
    /\ instances = <<>>
    /\ services = EmptyBag
    /\ triggers = EmptyBag
    /\ bindings = EmptyBag
    /\ exchanges = {}
    /\ queues = {}
    /\ last = NoPass
    /\ requests = {}
    /\ workers = [w \in Workers |-> Idle]

\* a user applies a TwinInterface, with or without a compute service
ApplyTwinInterface(name) ==
    /\ name \notin DOMAIN interfaces
    /\ \E service \in BOOLEAN, labels \in UserLabels :
          interfaces' = interfaces @@
              (name :> [service |-> service, status |-> PhaseUnset, labels |-> labels])
    /\ last' = NoPass
    /\ UNCHANGED <<instances, services, triggers, bindings, exchanges, queues, requests, workers>>

\* a user adds the compute service to the specification of a TwinInterface or
\* removes it; the status and the labels in the store stay as they are
EditTwinInterface(name) ==
    /\ name \in DOMAIN interfaces
    /\ interfaces' = [interfaces EXCEPT ![name].service = ~@]
    /\ last' = NoPass
    /\ UNCHANGED <<instances, services, triggers, bindings, exchanges, queues, requests, workers>>

\* a user applies a TwinInstance of some TwinInterface name
ApplyTwinInstance(name) ==
    /\ name \notin DOMAIN instances
    /\ \E ref \in ReferenceNames, labels \in UserLabels :
          instances' = instances @@
              (name :> [interface |-> ref, status |-> PhaseUnset, labels |-> labels])
    /\ last' = NoPass
    /\ UNCHANGED <<interfaces, services, triggers, bindings, exchanges, queues, requests, workers>>

\* the broker or the event store provisions or removes an Exchange
ProvisionExchange(e) ==
    /\ exchanges' = IF e \in exchanges THEN exchanges \ {e} ELSE exchanges \cup {e}
    /\ last' = NoPass
    /\ UNCHANGED <<interfaces, instances, services, triggers, bindings, queues, requests, workers>>

\* the trigger machinery or the event store provisions or removes a Queue
ProvisionQueue(q) ==
    /\ queues' = IF q \in queues THEN queues \ {q} ELSE queues \cup {q}
    /\ last' = NoPass
    /\ UNCHANGED <<interfaces, instances, services, triggers, bindings, exchanges, requests, workers>>

\* one pass of the TwinInterface reconciler on the request `name`
ReconcileInterface(name) ==
    \E f \in InterfaceFaultSets :
        \E r \in {InterfaceReconcile(Store, name, f)} :
            /\ interfaces' = r.st.interfaces
            /\ services' = r.st.services
            /\ triggers' = r.st.triggers
            /\ bindings' = r.st.bindings
            /\ exchanges' = r.st.exchanges
            /\ queues' = r.st.queues
            /\ instances' = r.st.instances
            /\ last' = Pass("interface", name, r)
            /\ UNCHANGED <<requests, workers>>

\* one pass of the TwinInstance reconciler on the request `name`
ReconcileInstance(name) ==
    \E f \in InstanceFaultSets :
        \E r \in {InstanceReconcile(Store, name, f)} :
            /\ interfaces' = r.st.interfaces
            /\ services' = r.st.services
            /\ triggers' = r.st.triggers
            /\ bindings' = r.st.bindings
            /\ exchanges' = r.st.exchanges
            /\ queues' = r.st.queues
            /\ instances' = r.st.instances
            /\ last' = Pass("instance", name, r)
            /\ UNCHANGED <<requests, workers>>

Next ==
    \/ \E name \in InterfaceNames : ApplyTwinInterface(name)
    \/ \E name \in InterfaceNames : EditTwinInterface(name)
    \/ \E name \in InstanceNames : ApplyTwinInstance(name)
    \/ \E e \in ExchangePool : ProvisionExchange(e)
    \/ \E q \in QueuePool : ProvisionQueue(q)
    \/ \E name \in InterfaceNames : ReconcileInterface(name)
    \/ \E name \in InstanceNames : ReconcileInstance(name)

Spec == Init /\ [][Next]_vars

----------------------------------------------------------------------------
(* The TwinInstance reconciler call by call.  Several workers run a pass   *)
(* at the same time against the same store; a step of a worker is one      *)
(* client call with the code around it, and the calls of the workers       *)
(* interleave in any order.  A call of a pass may fail with a transport    *)
(* error as long as fewer than MaxFaults calls of that pass have failed.   *)

Failures(calls) == Cardinality({k \in DOMAIN calls : calls[k][2] = "Internal"})
MayFail(calls, site) == {{}} \cup (IF Failures(calls) < MaxFaults THEN {{site}} ELSE {})

\* the pass of a worker so far, on the store as it is now
Context(w) ==
    [st |-> Store, calls |-> workers[w].calls, resultErrors |-> workers[w].resultErrors]

\* Reconcile up to the first return: Get of the TwinInstance
BeginInstance(w, name) ==
    /\ workers[w].pc \in {"idle", "done"}
    /\ \E f \in MayFail(<<>>, GetInstanceSite) :
          LET code == ClientGet(instances, name, GetInstanceSite, f)
              err == Err(code, GetInstanceSite)
              begun == [Idle EXCEPT !.name = name, !.calls = <<<<GetInstanceSite, code>>>>]
          IN  workers' = [workers EXCEPT ![w] =
                  IF err # Nil
                  THEN [begun EXCEPT !.pc = "done",
                                     !.err = IF IsNotFound(err) THEN Nil ELSE err]
                  ELSE [begun EXCEPT !.pc = "parent", !.twinInstance = instances[name]]]
    /\ UNCHANGED <<interfaces, instances, services, triggers, bindings, exchanges, queues,
                   last, requests>>

\* Get of the parent TwinInterface; the dispatch bindings are generated next
GetParent(w) ==
    /\ workers[w].pc = "parent"
    /\ \E f \in MayFail(workers[w].calls, GetParentSite) :
          LET twinInstance == workers[w].twinInstance
              code == ClientGet(interfaces, twinInstance.interface, GetParentSite, f)
              err == Err(code, GetParentSite)
              c == Called(Context(w), GetParentSite, code)
          IN  workers' = [workers EXCEPT ![w] =
                  IF err # Nil
                  THEN [@ EXCEPT !.pc = "done", !.calls = c.calls, !.err = err,
                                 !.obj = InMemory(twinInstance)]
                  ELSE [@ EXCEPT !.pc = "create", !.calls = c.calls,
                                 !.todo = GetMQQTDispatcherBindings(workers[w].name)]]
    /\ UNCHANGED <<interfaces, instances, services, triggers, bindings, exchanges, queues,
                   last, requests>>

\* one turn of the loop over the dispatch bindings
CreateBinding(w) ==
    /\ workers[w].pc = "create"
    /\ workers[w].todo # <<>>
    /\ LET binding == Head(workers[w].todo)
       IN  \E f \in MayFail(workers[w].calls, CreateBindingSite(binding)) :
             \E c \in {CreateStep(Context(w), "bindings", binding, binding,
                                   CreateBindingSite(binding), f)} :
                /\ bindings' = c.st.bindings
                /\ workers' = [workers EXCEPT ![w] =
                      [@ EXCEPT !.calls = c.calls, !.resultErrors = c.resultErrors,
                                !.todo = Tail(@),
                                !.pc = IF Tail(workers[w].todo) = <<>> THEN "finish"
                                       ELSE "create"]]
    /\ UNCHANGED <<interfaces, instances, services, triggers, exchanges, queues,
                   last, requests>>

\* after the loop: phase, label and Update of the object the worker holds
FinishPass(w) ==
    /\ workers[w].pc = "finish"
    /\ \E f \in MayFail(workers[w].calls, UpdateInstanceSite) :
          \E r \in {FinishInstance(Context(w), workers[w].name, workers[w].twinInstance, f)} :
             /\ instances' = r.st.instances
             /\ workers' = [workers EXCEPT ![w] =
                   [@ EXCEPT !.pc = "done", !.calls = r.calls,
                             !.resultErrors = r.resultErrors,
                             !.err = r.err, !.obj = r.obj]]
    /\ UNCHANGED <<interfaces, services, triggers, bindings, exchanges, queues,
                   last, requests>>

NextRace ==
    \/ \E name \in InterfaceNames : ApplyTwinInterface(name)
    \/ \E name \in InstanceNames : ApplyTwinInstance(name)
    \/ \E w \in Workers, name \in InstanceNames : BeginInstance(w, name)
    \/ \E w \in Workers : GetParent(w)
    \/ \E w \in Workers : CreateBinding(w)
    \/ \E w \in Workers : FinishPass(w)

SpecRace == Init /\ [][NextRace]_vars

----------------------------------------------------------------------------
(* The TwinInterface reconciler under the manager's delivery.  The manager *)
(* holds a request for a TwinInterface from the moment a user applies it;  *)
(* a pass takes the request, and the manager keeps it for a retry when the *)
(* pass returns an error and drops it when the pass returns nil.  Nothing  *)
(* else makes a request: the provisioning of Exchanges and Queues is not   *)
(* watched.                                                                *)

\* a user applies a TwinInterface and the manager receives the event
RequestTwinInterface(name) ==
    /\ name \notin DOMAIN interfaces
    /\ \E service \in BOOLEAN, labels \in UserLabels :
          interfaces' = interfaces @@
              (name :> [service |-> service, status |-> PhaseUnset, labels |-> labels])
    /\ requests' = requests \cup {name}
    /\ last' = NoPass
    /\ UNCHANGED <<instances, services, triggers, bindings, exchanges, queues, workers>>

\* what a pass does to the manager's requests: a pass that returns an error is
\* run again, a pass that returns nil is done with
Requeue(name, err) == IF err # Nil THEN requests ELSE requests \ {name}

\* the manager runs Reconcile on a request it holds, and no client call fails
Deliver(name) ==
    /\ name \in requests
    /\ \E r \in {InterfaceReconcile(Store, name, {})} :
          /\ interfaces' = r.st.interfaces
          /\ services' = r.st.services
          /\ triggers' = r.st.triggers
          /\ bindings' = r.st.bindings
          /\ exchanges' = r.st.exchanges
          /\ queues' = r.st.queues
          /\ instances' = r.st.instances
          /\ requests' = Requeue(name, r.err)
          /\ last' = Pass("interface", name, r)
    /\ UNCHANGED workers

\* the manager runs Reconcile on a request it holds, and some client call fails
DeliverFaulty(name) ==
    /\ name \in requests
    /\ \E f \in InterfaceFaultSets \ {{}} :
          \E r \in {InterfaceReconcile(Store, name, f)} :
             /\ interfaces' = r.st.interfaces
             /\ services' = r.st.services
             /\ triggers' = r.st.triggers
             /\ bindings' = r.st.bindings
             /\ exchanges' = r.st.exchanges
             /\ queues' = r.st.queues
             /\ instances' = r.st.instances
             /\ requests' = Requeue(name, r.err)
             /\ last' = Pass("interface", name, r)
    /\ UNCHANGED workers

NextRetry ==
    \/ \E name \in InterfaceNames : RequestTwinInterface(name)
    \/ \E e \in ExchangePool : ProvisionExchange(e)
    \/ \E q \in QueuePool : ProvisionQueue(q)
    \/ \E name \in InterfaceNames : Deliver(name)
    \/ \E name \in InterfaceNames : DeliverFaulty(name)

\* the manager does not hold a request for ever: it runs it, and from some
\* point on without a failing call
SpecRetry ==
    /\ Init
    /\ [][NextRetry]_vars
    /\ \A name \in InterfaceNames : WF_vars(Deliver(name))

----------------------------------------------------------------------------
(* Vocabulary of the properties                                            *)

\* the last step was a pass of that reconciler on that request
Ran(kind, name) == last.kind = kind /\ last.name = name

\* the calls of the last pass with that verb on that kind of object
CallsOf(verb, kind) == {call \in Range(last.calls) : call[1][1] = verb /\ call[1][2] = kind}
Creates == {call \in Range(last.calls) : call[1][1] = "Create"}
Lookups == {call \in Range(last.calls) : call[1][1] \in {"Get", "List"}}
\* the calls of the last pass that failed with a transport error
FailedSites == {call[1] : call \in {c \in Range(last.calls) : c[2] = "Internal"}}
CalledSites == {call[1] : call \in Range(last.calls)}

CreateSucceeded(call) == call[2] \in {"nil", "AlreadyExists"}

\* the last pass got the object it was asked to reconcile
Fetched(site) == <<site, "nil">> \in Range(last.calls)

DeclaresService(name) == name \in DOMAIN interfaces /\ interfaces[name].service

DefaultExchanges == {e \in exchanges : MatchingLabels((BrokerLabel :> "ktwin"), e.labels)}
InterfaceQueues(name) ==
    {q \in queues : MatchingLabels((BrokerLabel :> "ktwin") @@ (TriggerLabel :> name), q.labels)}
EventStoreQueues ==
    {q \in queues : MatchingLabels((TriggerLabel :> "event-store-trigger"), q.labels)}

\* the bindings of that kind in the store that belong to a twin, and how many
BindingsOf(bag, kind, name) == {b \in BagToSet(bag) : b.kind = kind /\ b.owner = name}
RECURSIVE Copies(_, _)
Copies(bag, objs) ==
    IF objs = {} THEN 0
    ELSE LET o == CHOOSE x \in objs : TRUE
         IN  CopiesIn(o, bag) + Copies(bag, objs \ {o})
CountBindings(kind, name) == Copies(bindings, BindingsOf(bindings, kind, name))
\* one binding of that kind per routing key the generator returns
AllBound(kind, name, keys) ==
    \A k \in Range(keys) :
        \E b \in BindingsOf(bindings, kind, name) : b.name[3] = k /\ CopiesIn(b, bindings) = 1

TriggersOf(name) == {t \in BagToSet(triggers) : t.owner = name}
ServicesOf(name) == {o \in BagToSet(services) : o.owner = name}

----------------------------------------------------------------------------
(* C1: idempotence of the TwinInterface reconciler.  In the state a pass    *)
(* on a TwinInterface has left, with nothing changed since, a second pass   *)
(* in which the same calls fail leaves the stored TwinInterface (phase and  *)
(* labels) and the bag of Bindings exactly as the first pass left them: no  *)
(* Binding is added and none is duplicated.                                 *)
C1_Idempotent ==
    \A name \in InterfaceNames :
        Ran("interface", name) =>
            \A f \in {g \in InterfaceFaultSets : g \cap CalledSites = FailedSites} :
                \A again \in {InterfaceReconcile(Store, name, f)} :
                    /\ again.st.interfaces = interfaces
                    /\ again.st.bindings = bindings
                    /\ CountBindings("relationship", name)
                         = Copies(again.st.bindings,
                                  BindingsOf(again.st.bindings, "relationship", name))
                    /\ CountBindings("event-store", name)
                         = Copies(again.st.bindings,
                                  BindingsOf(again.st.bindings, "event-store", name))

\* a second pass in a row has run: it found every artifact in place
C1_Witness ==
    /\ Ran("interface", "a")
    /\ DeclaresService("a")
    /\ interfaces["a"].status = PhaseRunning
    /\ Creates # {}
    /\ \A call \in Creates : call[2] = "AlreadyExists"
    /\ AllBound("relationship", "a", RelationshipKeys)
    /\ AllBound("event-store", "a", EventStoreKeys)

----------------------------------------------------------------------------
\* the success path: after a pass on a TwinInterface that declares a
\* service, exactly one Trigger, at most one Service, every relationship and
\* event-store Binding once (two and one), phase Running stored with the
\* identity label, and a nil error returned
SuccessPath(name) ==
    /\ Copies(triggers, TriggersOf(name)) = 1
    /\ Copies(services, ServicesOf(name)) <= 1
    /\ AllBound("relationship", name, RelationshipKeys)
    /\ AllBound("event-store", name, EventStoreKeys)
    /\ CountBindings("relationship", name) = Len(RelationshipKeys)
    /\ CountBindings("event-store", name) = Len(EventStoreKeys)
    /\ interfaces[name].status = PhaseRunning
    /\ interfaces[name].labels = (TwinInterfaceLabel :> name)
    /\ last.err = Nil

InfrastructureExists(name) ==
    /\ DefaultExchanges # {}
    /\ InterfaceQueues(name) # {}
    /\ EventStoreQueues # {}

(* C2, as claimed: for a TwinInterface that declares a service, with the    *)
(* default Exchange, the interface Queue and the event-store Queue in the   *)
(* namespace and every create call returning success or AlreadyExists, one  *)
(* pass leaves the success path's result.                                   *)
C2_AsClaimed ==
    \A name \in InterfaceNames :
        ( /\ Ran("interface", name)
          /\ Fetched(GetInterfaceSite)
          /\ DeclaresService(name)
          /\ InfrastructureExists(name)
          /\ \A call \in Creates : CreateSucceeded(call) )
        => SuccessPath(name)

(* C2, amended: the same, for a pass in which moreover the Trigger          *)
(* re-fetch, the three list calls and the final Update succeed.             *)
C2_SuccessPath ==
    \A name \in InterfaceNames :
        ( /\ Ran("interface", name)
          /\ Fetched(GetInterfaceSite)
          /\ DeclaresService(name)
          /\ InfrastructureExists(name)
          /\ \A call \in Creates : CreateSucceeded(call)
          /\ FailedSites = {} )
        => SuccessPath(name)

\* a first pass on a new TwinInterface in a fully provisioned namespace
C2_Witness ==
    /\ Ran("interface", "a")
    /\ DeclaresService("a")
    /\ InfrastructureExists("a")
    /\ FailedSites = {}
    /\ Cardinality(Creates) = 2 + Len(RelationshipKeys) + Len(EventStoreKeys)
    /\ \A call \in Creates : call[2] = "nil"
    /\ SuccessPath("a")

----------------------------------------------------------------------------
(* C3, as claimed: a pass on a TwinInterface with no declared service       *)
(* issues no create call and no list call, and the stored phase becomes     *)
(* Running whatever shared infrastructure exists.                           *)
C3_AsClaimed ==
    \A name \in InterfaceNames :
        ( /\ Ran("interface", name)
          /\ Fetched(GetInterfaceSite)
          /\ ~DeclaresService(name) )
        => /\ Creates = {}
           /\ CallsOf("List", "Exchange") \cup CallsOf("List", "Queue") = {}
           /\ interfaces[name].status = PhaseRunning

(* C3, amended: such a pass issues no create call and no list call, sets    *)
(* phase Running on its object and returns nil, whatever shared             *)
(* infrastructure exists; the stored phase becomes Running when the final   *)
(* Update succeeds.                                                         *)
C3_NoService ==
    \A name \in InterfaceNames :
        ( /\ Ran("interface", name)
          /\ Fetched(GetInterfaceSite)
          /\ ~DeclaresService(name) )
        => /\ Creates = {}
           /\ CallsOf("List", "Exchange") \cup CallsOf("List", "Queue") = {}
           /\ last.obj.status = PhaseRunning
           /\ last.err = Nil
           /\ CallsOf("Update", "TwinInterface") # {}
           /\ <<UpdateInterfaceSite, "nil">> \in Range(last.calls)
                => interfaces[name].status = PhaseRunning

\* a pass on a TwinInterface without service in an empty namespace
C3_Witness ==
    /\ Ran("interface", "a")
    /\ "a" \in DOMAIN interfaces
    /\ ~DeclaresService("a")
    /\ exchanges = {}
    /\ queues = {}
    /\ interfaces["a"].status = PhaseRunning
    /\ last.calls = << <<GetInterfaceSite, "nil">>, <<UpdateInterfaceSite, "nil">> >>

----------------------------------------------------------------------------
(* C4: for a TwinInterface that declares a service in a namespace with no   *)
(* default Exchange (both Queues present), after one pass in which no call  *)
(* fails the stored phase is Failed, no relationship Binding of the         *)
(* TwinInterface exists, and its Trigger and Service exist.                 *)
C4_MissingExchange ==
    \A name \in InterfaceNames :
        ( /\ Ran("interface", name)
          /\ DeclaresService(name)
          /\ FailedSites = {}
          /\ DefaultExchanges = {}
          /\ InterfaceQueues(name) # {}
          /\ EventStoreQueues # {} )
        => /\ interfaces[name].status = PhaseFailed
           /\ BindingsOf(bindings, "relationship", name) = {}
           /\ TriggersOf(name) # {}
           /\ ServicesOf(name) # {}

----------------------------------------------------------------------------
(* C5: for a TwinInterface that declares a service in a namespace with the  *)
(* default Exchange and the interface Queue but no event-store Queue, one   *)
(* pass in which no call fails creates the relationship Bindings, creates   *)
(* no event-store Binding, and leaves the stored phase Failed.              *)
C5_MissingEventStoreQueue ==
    \A name \in InterfaceNames :
        ( /\ Ran("interface", name)
          /\ DeclaresService(name)
          /\ FailedSites = {}
          /\ DefaultExchanges # {}
          /\ InterfaceQueues(name) # {}
          /\ EventStoreQueues = {} )
        => /\ AllBound("relationship", name, RelationshipKeys)
           /\ \A call \in CallsOf("Create", "Binding") : call[1][3] \notin Range(EventStoreKeys)
           /\ interfaces[name].status = PhaseFailed

----------------------------------------------------------------------------
(* C6: a pass of either reconciler that accumulated at least one failure    *)
(* returns a non-nil error, the first one accumulated.                      *)
C6_FailureIsReturned ==
    (last.kind # "none" /\ Len(last.resultErrors) > 0)
        => (last.err # Nil /\ last.err = last.resultErrors[1])

----------------------------------------------------------------------------
(* C7: a pass on a TwinInstance whose parent Get fails (NotFound included)  *)
(* returns a non-nil error, issues no create and no update call, and leaves *)
(* the store, the TwinInstance's phase and labels with it, as it was.       *)
C7_UnresolvedParent ==
    [][ \A name \in InstanceNames :
          ( /\ Ran("instance", name)'
            /\ \E call \in Range(last'.calls) : call[1] = GetParentSite /\ call[2] # "nil" )
          => /\ last'.err # Nil
             /\ \A call \in Range(last'.calls) : call[1][1] \notin {"Create", "Update"}
             /\ instances' = instances
             /\ bindings' = bindings
             /\ Store' = Store ]_vars

\* a pass on a TwinInstance whose TwinInterface is not in the store
C7_Witness ==
    /\ Ran("instance", "x")
    /\ "x" \in DOMAIN instances
    /\ instances["x"].interface \notin DOMAIN interfaces
    /\ <<GetParentSite, "NotFound">> \in Range(last.calls)
    /\ last.err = <<"NotFound", GetParentSite>>

----------------------------------------------------------------------------
(* C8: no AlreadyExists result is ever accumulated; a pass of either        *)
(* reconciler in which every create returns success or AlreadyExists and    *)
(* every lookup resolves accumulates nothing, ends with phase Running on    *)
(* its object and returns nil.                                              *)
LookupsResolve ==
    /\ Lookups # {}
    /\ \A call \in Lookups : call[2] = "nil"
    /\ last.kind = "interface" /\ DeclaresService(last.name)
         => InfrastructureExists(last.name)

C8_AlreadyExistsIsSuccess ==
    /\ \A k \in DOMAIN last.resultErrors : ~IsAlreadyExists(last.resultErrors[k])
    /\ (last.kind # "none" /\ LookupsResolve /\ \A call \in Creates : CreateSucceeded(call))
         => /\ last.resultErrors = <<>>
            /\ last.obj.status = PhaseRunning
            /\ last.err = Nil

\* a pass that found some of its artifacts in place and created the others
C8_Witness ==
    /\ last.kind = "interface"
    /\ LookupsResolve
    /\ \E call \in Creates : call[2] = "AlreadyExists"
    /\ \E call \in Creates : call[2] = "nil"
    /\ \A call \in Creates : CreateSucceeded(call)
    /\ last.obj.status = PhaseRunning
    /\ last.err = Nil

----------------------------------------------------------------------------
(* C9: a pass on a TwinInstance that stores phase Running has attempted     *)
(* every dispatch Binding and each create returned success or               *)
(* AlreadyExists; and in every state a TwinInstance with stored phase       *)
(* Running has all its dispatch Bindings in the store.                      *)
C9_RunningInstanceIsBound ==
    /\ \A name \in InstanceNames :
          ( /\ Ran("instance", name)
            /\ <<UpdateInstanceSite, "nil">> \in Range(last.calls)
            /\ instances[name].status = PhaseRunning )
          => \A k \in Range(DispatcherKeys) :
                \E call \in Creates : call[1][3] = k /\ CreateSucceeded(call)
    /\ \A name \in DOMAIN instances :
          instances[name].status = PhaseRunning
          => AllBound("dispatcher", name, DispatcherKeys)

\* a pass on a TwinInstance has stored Running
C9_Witness ==
    /\ Ran("instance", "x")
    /\ <<UpdateInstanceSite, "nil">> \in Range(last.calls)
    /\ instances["x"].status = PhaseRunning
    /\ Cardinality(Creates) = Len(DispatcherKeys)

----------------------------------------------------------------------------
(* C10: in every state a reconcile pass on a TwinInterface has produced, if  *)
(* the TwinInterface declares a service and has stored phase Running, then  *)
(* its Service, its Trigger, its relationship Bindings and its event-store  *)
(* Bindings are in the store, and it carries the label                      *)
(* ktwin/twin-interface = its name.  No step of the model deletes an        *)
(* artifact.                                                                *)
C10_RunningInterfaceIsMaterialized ==
    \A name \in DOMAIN interfaces :
        ( /\ Ran("interface", name)
          /\ interfaces[name].service
          /\ interfaces[name].status = PhaseRunning )
        => /\ ServicesOf(name) # {}
           /\ TriggersOf(name) # {}
           /\ AllBound("relationship", name, RelationshipKeys)
           /\ AllBound("event-store", name, EventStoreKeys)
           /\ TwinInterfaceLabel \in DOMAIN interfaces[name].labels
           /\ interfaces[name].labels[TwinInterfaceLabel] = name

----------------------------------------------------------------------------
(* C11: a pass of either reconciler whose first Get returns NotFound for    *)
(* the object it is asked to reconcile returns nil, makes no other call     *)
(* (no list, create or update) and leaves the store as it was.              *)
C11_AbsentIsNoOp ==
    [][ ( /\ last'.kind # "none"
          /\ last'.calls[1][2] = "NotFound" )
        => /\ last'.err = Nil
           /\ Len(last'.calls) = 1
           /\ last'.calls[1][1] \in {GetInterfaceSite, GetInstanceSite}
           /\ Store' = Store ]_vars

\* a pass on a TwinInstance request whose object is not in the store, while
\* its TwinInterface and a fully provisioned namespace are
C11_Witness ==
    /\ Ran("instance", "x")
    /\ "x" \notin DOMAIN instances
    /\ "a" \in DOMAIN interfaces
    /\ last.calls = << <<GetInstanceSite, "NotFound">> >>
    /\ last.err = Nil
    /\ bindings = EmptyBag

----------------------------------------------------------------------------
(* C12: no pass of either reconciler creates, updates or deletes an         *)
(* Exchange or a Queue: a pass leaves the sets of Exchanges and Queues as   *)
(* it found them and makes no Create or Update call on either kind.         *)
C12_InfrastructureReadOnly ==
    [][ last'.kind # "none"
        => /\ exchanges' = exchanges
           /\ queues' = queues
           /\ \A call \in Range(last'.calls) :
                 call[1][2] \in {"Exchange", "Queue"} => call[1][1] = "List" ]_vars

\* a pass that looked for the default Exchange and did not find it
C12_Witness ==
    /\ Ran("interface", "a")
    /\ DeclaresService("a")
    /\ <<ListExchangeSite, "nil">> \in Range(last.calls)
    /\ exchanges = {}
    /\ EventStoreQueues # {}

----------------------------------------------------------------------------
(* C15: after a pass on a TwinInstance whose parent resolves and in which   *)
(* a dispatch Binding create fails with an error other than AlreadyExists,  *)
(* the stored phase of the TwinInstance is Failed.                          *)
C15_FailedInstanceIsStored ==
    \A name \in InstanceNames :
        ( /\ Ran("instance", name)
          /\ <<GetParentSite, "nil">> \in Range(last.calls)
          /\ \E call \in CallsOf("Create", "Binding") : ~CreateSucceeded(call) )
        => instances[name].status = PhaseFailed

----------------------------------------------------------------------------
(* C16: after a pass, in which no call fails, on a TwinInterface that       *)
(* declares a service in a namespace with the default Exchange and the      *)
(* event-store Queue but without the interface Queue, no relationship       *)
(* Binding was created, the event-store Bindings are in the store, and the  *)
(* missing Queue is accumulated as a failure.                               *)
C16_EventStoreBindingsIndependent ==
    \A name \in InterfaceNames :
        ( /\ Ran("interface", name)
          /\ DeclaresService(name)
          /\ FailedSites = {}
          /\ DefaultExchanges # {}
          /\ EventStoreQueues # {}
          /\ InterfaceQueues(name) = {} )
        => /\ \A call \in CallsOf("Create", "Binding") :
                 call[1][3] \notin Range(RelationshipKeys)
           /\ AllBound("event-store", name, EventStoreKeys)
           /\ Len(last.resultErrors) > 0

----------------------------------------------------------------------------
\* the positions in the last pass of the calls at that site
PositionsOf(site) == {k \in DOMAIN last.calls : last.calls[k][1] = site}
BindingCreations == {k \in DOMAIN last.calls : last.calls[k][1][1] = "Create"
                                               /\ last.calls[k][1][2] = "Binding"}

(* C17: in a pass on a TwinInterface that declares a service, the Service   *)
(* create comes before the Trigger create, the Trigger is fetched after its *)
(* create and before any Binding create, and every Binding create follows a *)
(* successful fetch of the Trigger: a pass whose Trigger fetch failed       *)
(* creates no Binding.                                                      *)
C17_BindingsFromFetchedTrigger ==
    \A name \in InterfaceNames :
        (Ran("interface", name) /\ Fetched(GetInterfaceSite) /\ DeclaresService(name))
        => /\ \A s \in PositionsOf(CreateServiceSite), t \in PositionsOf(CreateTriggerSite) : s < t
           /\ \A t \in PositionsOf(CreateTriggerSite), g \in PositionsOf(GetTriggerSite) : t < g
           /\ \A b \in BindingCreations :
                 \E g \in PositionsOf(GetTriggerSite) : g < b /\ last.calls[g][2] = "nil"

----------------------------------------------------------------------------
(* C18: a pass of either reconciler whose final Update fails returns nil    *)
(* to the caller and leaves the stored object, phase and labels, as it was, *)
(* while every routing artifact of the pass is in the store.                *)
C18_UpdateFailureIsSwallowed ==
    [][ ( /\ last'.kind # "none"
          /\ \E call \in Range(last'.calls) : call[1][1] = "Update" /\ call[2] # "nil" )
        => /\ last'.err = Nil
           /\ interfaces' = interfaces
           /\ instances' = instances
           /\ last'.obj.status = PhaseRunning
           /\ \A call \in Range(last'.calls) :
                 call[1][1] = "Create" => call[2] \in {"nil", "AlreadyExists"}
           /\ \A name \in InstanceNames :
                 Ran("instance", name)' => AllBound("dispatcher", name, DispatcherKeys)'
           /\ \A name \in InterfaceNames :
                 (Ran("interface", name)' /\ interfaces[name].service)
                 => /\ AllBound("relationship", name, RelationshipKeys)'
                    /\ AllBound("event-store", name, EventStoreKeys)'
                    /\ TriggersOf(name)' # {}
                    /\ ServicesOf(name)' # {} ]_vars

\* a first pass that created every artifact and whose Update failed
C18_Witness ==
    /\ Ran("interface", "a")
    /\ DeclaresService("a")
    /\ <<UpdateInterfaceSite, "Internal">> \in Range(last.calls)
    /\ last.err = Nil
    /\ interfaces["a"].status = PhaseUnset
    /\ interfaces["a"].labels \in UserLabels
    /\ AllBound("relationship", "a", RelationshipKeys)
    /\ AllBound("event-store", "a", EventStoreKeys)

----------------------------------------------------------------------------
(* C19: a TwinInstance with stored phase Running carries the label          *)
(* ktwin/twin-interface with the name of the TwinInterface it references    *)
(* (Spec.Interface) as value.                                               *)
C19_InstanceLabelNamesParent ==
    \A name \in DOMAIN instances :
        instances[name].status = PhaseRunning
        => /\ TwinInterfaceLabel \in DOMAIN instances[name].labels
           /\ instances[name].labels[TwinInterfaceLabel] = instances[name].interface

----------------------------------------------------------------------------
(* C20: a pass that stores phase Running replaces the whole label map of    *)
(* the object: the stored labels are then the single entry                  *)
(* ktwin/twin-interface and no label carried before the pass is left; a     *)
(* pass that does not store Running leaves the stored labels as they were.  *)
C20_LabelsReplaced ==
    [][ /\ \A name \in InterfaceNames :
              (Ran("interface", name)' /\ name \in DOMAIN interfaces)
              => IF <<UpdateInterfaceSite, "nil">> \in Range(last'.calls)
                 THEN /\ interfaces'[name].status = PhaseRunning
                      /\ DOMAIN interfaces'[name].labels = {TwinInterfaceLabel}
                 ELSE /\ interfaces'[name].labels = interfaces[name].labels
                      /\ interfaces'[name].status = interfaces[name].status
        /\ \A name \in InstanceNames :
              (Ran("instance", name)' /\ name \in DOMAIN instances)
              => IF <<UpdateInstanceSite, "nil">> \in Range(last'.calls)
                 THEN /\ instances'[name].status = PhaseRunning
                      /\ DOMAIN instances'[name].labels = {TwinInterfaceLabel}
                 ELSE /\ instances'[name].labels = instances[name].labels
                      /\ instances'[name].status = instances[name].status ]_vars

\* a pass has stored Running and the user's label is gone
C20_Witness ==
    /\ Ran("interface", "a")
    /\ <<UpdateInterfaceSite, "nil">> \in Range(last.calls)
    /\ interfaces["a"].status = PhaseRunning
    /\ interfaces["a"].labels = (TwinInterfaceLabel :> "a")
    /\ \A l \in UserLabels : DOMAIN l \cap DOMAIN interfaces["a"].labels = {}

----------------------------------------------------------------------------
\* the creates of dispatch Bindings a worker has made in its pass, by routing key
CreatedBy(w, key) ==
    {call \in Range(workers[w].calls) : call[1] = <<"Create", "Binding", key>>}
\* the Bindings in the store with that routing key, counted with their copies
StoredWithKey(key) ==
    Copies(bindings, {b \in BagToSet(bindings) : b.name[3] = key})
\* the worker's pass is over and none of its calls failed
Unfailed(w) ==
    /\ workers[w].pc = "done"
    /\ \A call \in Range(workers[w].calls) : call[2] \in {"nil", "AlreadyExists"}

(* C13: under every interleaving of the calls of two passes that create the *)
(* same Bindings, once a create of a Binding has been answered with success *)
(* or AlreadyExists exactly one Binding of that identity is in the store;   *)
(* a create answered AlreadyExists adds no error to its pass; and two       *)
(* passes none of whose calls failed both end with phase Running and nil.   *)
C13_RaceOnBinding ==
    /\ \A key \in Range(DispatcherKeys) :
          (\E w \in Workers : \E call \in CreatedBy(w, key) : CreateSucceeded(call))
          => StoredWithKey(key) = 1
    /\ \A key \in Range(DispatcherKeys) : StoredWithKey(key) <= 1
    /\ \A w \in Workers :
          \A call \in Range(workers[w].calls) :
             call[2] = "AlreadyExists"
             => \A k \in DOMAIN workers[w].resultErrors :
                   /\ workers[w].resultErrors[k][2] # call[1]
                   /\ ~IsAlreadyExists(workers[w].resultErrors[k])
    /\ \A w \in Workers :
          Unfailed(w) => /\ workers[w].resultErrors = <<>>
                         /\ workers[w].obj.status = PhaseRunning
                         /\ workers[w].err = Nil

\* two passes on the same TwinInstance have interleaved: each created one of
\* the two dispatch Bindings and found the other one in place, and both ended Running
C13_Witness ==
    /\ Unfailed("w1") /\ Unfailed("w2")
    /\ workers["w1"].name = "x" /\ workers["w2"].name = "x"
    /\ <<<<"Create", "Binding", "mqtt-real">>, "nil">> \in Range(workers["w1"].calls)
    /\ <<<<"Create", "Binding", "mqtt-virtual">>, "AlreadyExists">> \in Range(workers["w1"].calls)
    /\ <<<<"Create", "Binding", "mqtt-real">>, "AlreadyExists">> \in Range(workers["w2"].calls)
    /\ <<<<"Create", "Binding", "mqtt-virtual">>, "nil">> \in Range(workers["w2"].calls)
    /\ workers["w1"].obj.status = PhaseRunning
    /\ workers["w2"].obj.status = PhaseRunning
    /\ StoredWithKey("mqtt-real") = 1 /\ StoredWithKey("mqtt-virtual") = 1

----------------------------------------------------------------------------
(* C14: convergence under re-delivery.  When the manager re-runs Reconcile  *)
(* after every pass that returns an error and nothing else is delivered, a  *)
(* TwinInterface that declares a service eventually has stored phase        *)
(* Running once its default Exchange, interface Queue and event-store Queue *)
(* exist.  Only a pass stores Running and only a held request is run, so    *)
(* this needs that the manager holds a request for every TwinInterface that *)
(* declares a service and is not stored Running; in particular a pass that  *)
(* found infrastructure missing has returned an error.  In a state where    *)
(* no request is held the provisioning of the infrastructure can still      *)
(* follow, and then no pass ever runs again.                                *)
C14_RetryUntilRunning ==
    \A name \in InterfaceNames :
        (DeclaresService(name) /\ interfaces[name].status # PhaseRunning)
        => name \in requests

============================================================================
